---- MODULE Spec2Model ----
(***************************************************************************)
(* Model of src/seo_audit.py: SEOAuditAutomation.process_csv (the batch    *)
(* orchestrator), SEOAuditAutomation.process_url (the per-item workflow    *)
(* with its four locator chains), setup_driver and cleanup.                *)
(*                                                                         *)
(* One run of process_csv is modelled.  The browser page is the            *)
(* environment: each time a locator chain is resolved the page offers, for *)
(* every candidate selector, one of "absent", "hidden" (present in the DOM *)
(* but not displayed) or "visible"; every other session call either        *)
(* returns or raises.                                                      *)
(***************************************************************************)
EXTENDS Integers, Sequences, FiniteSets, TLC

(* ---------------------------------------------------------------------- *)
(* Bounds                                                                  *)
(* ---------------------------------------------------------------------- *)
\* longest input list read from the CSV file
MaxItems == 2

(* ---------------------------------------------------------------------- *)
(* Values                                                                  *)
(* ---------------------------------------------------------------------- *)
\* Python's None, for the optional values that are sequences when present
None == <<>>

\* no statement of process_url has raised
NoStep == "none"

\* the URLs of the input file, as character sequences
UrlPlain  == <<"a", ".", "c">>
UrlScheme == <<"h", ":", "/", "/", "a", ".", "c">>
UrlPath   == <<"h", ":", "/", "/", "b", "/", "A">>
UrlList == <<UrlPlain, UrlScheme, UrlPath>>

\* the input file with n rows
Rows(n) == [i \in 1..n |-> UrlList[((i - 1) % Len(UrlList)) + 1]]

\* what a candidate selector finds on the page while a chain is resolved
CandStates == {"absent", "hidden", "visible"}

\* exceptions that may leave any statement of process_url: a failure of the
\* session that is neither a timeout nor a missing element, and Ctrl-C
StepErrors == {"WebDriverException", "KeyboardInterrupt"}

\* the page states a chain of n candidates may meet
Pages(n) == [1..n -> CandStates]

(* ---------------------------------------------------------------------- *)
(* Locator chains of process_url                                           *)
(* ---------------------------------------------------------------------- *)
selectors ==
    << "input[type='text']", "input[type='url']", "input[placeholder*='URL']",
       "input[placeholder*='url']", "input[placeholder*='website']",
       "input[name*='url']" >>

button_selectors ==
    << "button[type='submit']", "//button[contains(text(), 'Analyze')]",
       "//button[contains(text(), 'Check')]", "//button[contains(text(), 'Audit')]",
       "//button[contains(text(), 'Submit')]", "input[type='submit']" >>

email_selectors ==
    << "input#email", "input[type='email']", "input[name='email']",
       "input[placeholder*='email']", "input[placeholder*='Email']",
       "//input[@type='email']", "//input[@name='email']" >>

final_submit_selectors ==
    << "//button[contains(text(), 'Submit')]", "//button[contains(text(), 'Get Results')]",
       "//button[contains(text(), 'Send')]", "button[type='submit']",
       "input[type='submit']" >>

\* the expected condition each chain waits on
UrlInputCondition    == "presence_of_element_located"
SubmitCondition      == "element_to_be_clickable"
EmailInputCondition  == "presence_of_element_located"
FinalSubmitCondition == "element_to_be_clickable"

\* the element variable before the loop assigns it (url_input = None, ...)
NoElement == [cand |-> 0, displayed |-> FALSE]

\* WebDriverWait(driver, 3).until(condition(locator)) on a candidate whose
\* page state is s: the element, or TimeoutException
WaitUntil(condition, s) ==
    IF condition = "presence_of_element_located"
    THEN IF s = "absent" THEN "TimeoutException" ELSE "element"
    ELSE IF s = "visible" THEN "element" ELSE "TimeoutException"

\* element.is_displayed()
is_displayed(s) == s = "visible"

\* except (TimeoutException, NoSuchElementException): continue
ResolverCatches(e) == e \in {"TimeoutException", "NoSuchElementException"}

\* the loop without its break: the last candidate that yields an element wins
RECURSIVE ResolveLoop_nobreak(_, _, _, _)
ResolveLoop_nobreak(condition, pg, i, cur) ==
    IF i > Len(pg) THEN [el |-> cur, evaluated |-> Len(pg), raised |-> NoStep]
    ELSE IF WaitUntil(condition, pg[i]) # "element"
         THEN ResolveLoop_nobreak(condition, pg, i + 1, cur)
         ELSE ResolveLoop_nobreak(condition, pg, i + 1,
                                  [cand |-> i, displayed |-> is_displayed(pg[i])])

\* the for-loop over one chain: cur is the element variable, i the candidate
\* about to be tried; yields the element variable after the loop, the number
\* of candidates that were tried and the exception that left the loop, if any
RECURSIVE ResolveLoop(_, _, _, _)
ResolveLoop(condition, pg, i, cur) ==
    IF i > Len(pg) THEN [el |-> cur, evaluated |-> Len(pg), raised |-> NoStep]
    ELSE LET r == WaitUntil(condition, pg[i])
         IN  IF r # "element"
             THEN IF ResolverCatches(r)
                  THEN ResolveLoop(condition, pg, i + 1, cur)
                  ELSE [el |-> cur, evaluated |-> i, raised |-> r]
             ELSE LET e == [cand |-> i, displayed |-> is_displayed(pg[i])]
                  IN  IF e.displayed
                      THEN [el |-> e, evaluated |-> i, raised |-> NoStep]
                      ELSE ResolveLoop(condition, pg, i + 1, e)

Resolve(condition, pg) == ResolveLoop(condition, pg, 1, NoElement)

\* if not url_input: ...
\* a check that never takes the not-found return
NotFound_never(e) == FALSE

NotFound(e) == e.cand = 0

(* ---------------------------------------------------------------------- *)
(* Results                                                                 *)
(* ---------------------------------------------------------------------- *)
\* a result that starts out as a success
NewResult_success(url) ==
    [url |-> url, status |-> "success", screenshot_path |-> None, error |-> None]

\* result = {"url": url, "status": "failed", "screenshot_path": None, "error": None, ...}
NewResult(url) ==
    [url |-> url, status |-> "failed", screenshot_path |-> None, error |-> None]

MsgNoUrlInput    == <<"Could not find URL input field">>
\* the message of the step before, copied
MsgNoSubmit_copied == <<"Could not find URL input field">>
MsgNoSubmit      == <<"Could not find submit button">>
MsgNoEmailInput  == <<"Could not find email input field">>
MsgNoFinalSubmit == <<"Could not find final submit button">>

\* f"Failed to handle email form: {str(e)}" and f"Unexpected error: {str(e)}"
MsgEmailForm(e)  == <<"Failed to handle email form: ", e>>
MsgUnexpected(e) == <<"Unexpected error: ", e>>

(* ---------------------------------------------------------------------- *)
(* sanitize_filename                                                       *)
(* ---------------------------------------------------------------------- *)
LowerLetters == {"a", "b", "c", "h"}
UpperLetters == {"A", "B", "C", "H"}
Digits == {"0", "1"}

\* str.lower() on one character
Lower(c) ==
    CASE c = "A" -> "a" [] c = "B" -> "b" [] c = "C" -> "c" [] c = "H" -> "h"
      [] OTHER -> c

\* position of the first character of s, from position i on, that is in S;
\* Len(s) + 1 when there is none
FindFrom(s, S, i) ==
    LET hits == {k \in i..Len(s) : s[k] \in S}
    IN  IF hits = {} THEN Len(s) + 1
        ELSE CHOOSE k \in hits : \A j \in hits : k <= j

Drop(s, n) == SubSeq(s, n + 1, Len(s))

\* urlsplit: a scheme is a letter followed by letters, digits, "+", "-", "."
\* up to the first ":"
HasScheme(url) ==
    LET i == FindFrom(url, {":"}, 1)
    IN  /\ i <= Len(url)
        /\ i > 1
        /\ url[1] \in LowerLetters \cup UpperLetters
        /\ \A k \in 1..(i - 1) :
              url[k] \in LowerLetters \cup UpperLetters \cup Digits \cup {"+", "-", "."}

\* urlparse(url): netloc and path
urlparse(url) ==
    LET rest1 == IF HasScheme(url) THEN Drop(url, FindFrom(url, {":"}, 1)) ELSE url
        slashes == Len(rest1) >= 2 /\ rest1[1] = "/" /\ rest1[2] = "/"
        delim == FindFrom(rest1, {"/", "?", "#"}, 3)
        netloc == IF slashes THEN SubSeq(rest1, 3, delim - 1) ELSE <<>>
        rest2 == IF slashes THEN Drop(rest1, delim - 1) ELSE rest1
        rest3 == SubSeq(rest2, 1, FindFrom(rest2, {"#"}, 1) - 1)
        path == SubSeq(rest3, 1, FindFrom(rest3, {"?"}, 1) - 1)
    IN  [netloc |-> netloc, path |-> path]

\* parsed.path.replace('/', '_')
ReplaceSlash(s) == [i \in 1..Len(s) |-> IF s[i] = "/" THEN "_" ELSE s[i]]

\* slugify: lower case, every run of characters outside [-a-z0-9] becomes one
\* "-", runs of "-" collapse, leading and trailing "-" are stripped
SlugChar(c) ==
    LET l == Lower(c) IN IF l \in LowerLetters \cup Digits THEN l ELSE "-"

\* the "-" at position i of the mapped string survives when it starts a run
\* that has a letter or digit before it and one after it
SlugKeeps(m, i) ==
    \/ m[i] # "-"
    \/ /\ i > 1
       /\ m[i - 1] # "-"
       /\ \E j \in (i + 1)..Len(m) : m[j] # "-"

SlugKept(c) == c # ""

slugify(s) ==
    LET m == [i \in 1..Len(s) |-> SlugChar(s[i])]
        marked == [i \in 1..Len(s) |-> IF SlugKeeps(m, i) THEN m[i] ELSE ""]
    IN  SelectSeq(marked, SlugKept)

\* if len(filename) > 100: filename = filename[:100]
MaxFilenameLen == 100

\* sanitize_filename without the cut to 100 characters
sanitize_filename_uncut(url) ==
    LET parsed == urlparse(url)
    IN  slugify(parsed.netloc \o ReplaceSlash(parsed.path))

sanitize_filename(url) ==
    LET parsed == urlparse(url)
        filename == slugify(parsed.netloc \o ReplaceSlash(parsed.path))
    IN  IF Len(filename) > MaxFilenameLen
        THEN SubSeq(filename, 1, MaxFilenameLen)
        ELSE filename

\* self.sanitize_filename(url) for the urls of the input file
SanitizedName ==
    [url \in {UrlList[i] : i \in 1..Len(UrlList)} |-> sanitize_filename(url)]

\* the file names process_url writes into the screenshots directory:
\* f"debug_{self.sanitize_filename(url)}_initial.png", ...
DebugName(url, stage) == <<"debug_">> \o SanitizedName[url] \o <<stage, ".png">>

\* self.sanitize_filename(url) + ".png"
FinalName(url) == SanitizedName[url] \o <<".png">>

\* the statements inside the inner try block (the email form)
EmailSteps == {"find_email", "fill_email", "find_final_submit", "click_final_submit"}

\* no inner handler
InnerCatches_none(e) == FALSE

\* except Exception as e (inner handler, email form)
InnerCatches(e) == e # "KeyboardInterrupt"

\* an outer handler for the resolver's two exceptions only
OuterCatches_narrow(e) == e \in {"TimeoutException", "NoSuchElementException"}

\* except Exception as e (outer handler of process_url)
OuterCatches(e) == e # "KeyboardInterrupt"

(* ---------------------------------------------------------------------- *)
(* process_csv helpers                                                     *)
(* ---------------------------------------------------------------------- *)
\* no check for an empty list
NoUrls_never(us) == FALSE

\* if not urls
NoUrls(us) == Len(us) = 0

\* a loop that stops one item early
LoopDone_early(i, us) == i >= Len(us)

\* for url in tqdm(urls): the iterator is exhausted
LoopDone(i, us) == i > Len(us)

\* the two branches exchanged
Classify_swapped(res, url, succ, fail) ==
    IF res.status = "success"
    THEN <<succ, Append(fail, url)>>
    ELSE <<Append(succ, url), fail>>

\* a success that is appended to both lists
Classify_both(res, url, succ, fail) ==
    IF res.status = "success"
    THEN <<Append(succ, url), Append(fail, url)>>
    ELSE <<succ, Append(fail, url)>>

\* if result["status"] == "success": successful.append(url) else: failed.append(url)
Classify(res, url, succ, fail) ==
    IF res.status = "success"
    THEN <<Append(succ, url), fail>>
    ELSE <<succ, Append(fail, url)>>

\* a list that keeps the failures only
ResultsAppend_failedOnly(rs, r) == IF r.status = "failed" THEN Append(rs, r) ELSE rs

\* results.append(result)
ResultsAppend(rs, r) == Append(rs, r)

\* a cleanup that forgets the driver without quitting it
cleanup_noquit(drv, live) == <<None, live>>

\* cleanup(): if self.driver: self.driver.quit(); self.driver = None
cleanup(drv, live) ==
    IF drv # None THEN <<None, FALSE>> ELSE <<drv, live>>

\* webdriver.Chrome(service=service, options=chrome_options)
Chrome == <<"webdriver.Chrome">>

(* ---------------------------------------------------------------------- *)
(* State                                                                   *)
(* ---------------------------------------------------------------------- *)
VARIABLES
    csv,            \* first column of the input file
    urls,           \* process_csv: urls
    pc,             \* statement about to run
    idx,            \* position of the loop in urls
    driver,         \* self.driver
    sessionLive,    \* a browser session exists that was not quit
    setupCalls,     \* calls of setup_driver
    calls,          \* calls of process_url
    result,         \* process_url: result
    raisedAt,       \* statement of process_url that raised for this item
    raisedExc,      \* the exception it raised
    elem,           \* the element variable of the chain resolved last
    page,           \* candidate states the resolver saw for that chain
    evaluated,      \* candidates the resolver tried for that chain
    trace,          \* statements of process_url run for this item
    results, successful, failed,
    retval,         \* what process_csv returns
    exc,            \* exception propagating out of process_csv
    manifest,       \* the contents written to results.csv, one per write
    files,          \* files in the screenshots directory
    zipPath,        \* create_zip: where the archive was created
    archive,        \* create_zip: the entry names written to the archive
    printed,        \* main: what was printed
    caught,         \* main: the exception one of its handlers caught
    uncaught,       \* main: the exception that left it
    sanUrl,         \* sanitize_filename: the argument of the last direct call
    sanOut,         \* sanitize_filename: what that call returned
    sanPrevUrl,     \* the argument of the direct call before it
    sanPrevOut,     \* what the call before it returned
    sanCalls        \* direct calls of sanitize_filename so far, counted up to 2

vars == << csv, urls, pc, idx, driver, sessionLive, setupCalls, calls, result,
           raisedAt, raisedExc, elem, page, evaluated, trace, results, successful, failed,
           retval, exc, manifest, files, zipPath, archive, printed, caught, uncaught,
           sanUrl, sanOut, sanPrevUrl, sanPrevOut, sanCalls >>

sanVars == << sanUrl, sanOut, sanPrevUrl, sanPrevOut, sanCalls >>

batchVars == << csv, urls, idx, driver, sessionLive, setupCalls, calls,
                results, successful, failed, retval, manifest >>

Init ==
    /\ csv \in {Rows(n) : n \in 0..MaxItems}
    /\ urls = <<>>
    /\ pc = "read_csv"
    /\ idx = 1
    /\ driver = None
    /\ sessionLive = FALSE
    /\ setupCalls = 0
    /\ calls = 0
    /\ result = NewResult(<<>>)
    /\ raisedAt = NoStep
    /\ raisedExc = NoStep
    /\ elem = NoElement
    /\ page = <<>>
    /\ evaluated = 0
    /\ trace = <<>>
    /\ results = <<>>
    /\ successful = <<>>
    /\ failed = <<>>
    /\ retval = None
    /\ exc = None
    /\ manifest = <<>>
    /\ files = {}
    /\ zipPath = None
    /\ archive = {}
    /\ printed = <<>>
    /\ caught = None
    /\ uncaught = None
    /\ sanUrl = <<>>
    /\ sanOut = <<>>
    /\ sanPrevUrl = <<>>
    /\ sanPrevOut = <<>>
    /\ sanCalls = 0

(* ---------------------------------------------------------------------- *)
(* process_csv, up to the loop                                             *)
(* ---------------------------------------------------------------------- *)
workflowVars == << result, raisedAt, raisedExc, elem, page, evaluated, trace, files >>

mainVars == << zipPath, archive, printed, caught, uncaught >>

\* df = pd.read_csv(csv_path); urls = df.iloc[:, 0].tolist(); if not urls: return [], []
ReadCsv ==
    /\ pc = "read_csv"
    /\ \/ \* the file cannot be read, or has no columns
          /\ exc' = <<"ValueError", "read_csv">>
          /\ pc' = "finally"
          /\ UNCHANGED << urls, retval >>
       \/ /\ urls' = csv
          /\ IF NoUrls(csv)
             THEN retval' = << <<>>, <<>> >> /\ pc' = "finally"
             ELSE retval' = retval /\ pc' = "setup_driver"
          /\ exc' = exc
    /\ UNCHANGED << csv, idx, driver, sessionLive, setupCalls, calls, results,
                    successful, failed, manifest >>
    /\ UNCHANGED workflowVars
    /\ UNCHANGED mainVars
    /\ UNCHANGED sanVars

\* a handler that logs the failure and does not raise it again
SetupReraises_swallowed == FALSE

\* except WebDriverException as e: self.logger.error(...); raise
SetupReraises == TRUE

\* a failure inside the try block of setup_driver: it leaves setup_driver and
\* process_csv, unless the handler swallows it
SetupFails ==
    IF SetupReraises
    THEN exc' = <<"WebDriverException", "setup_driver">> /\ pc' = "finally"
    ELSE exc' = exc /\ pc' = "loop"

\* self.setup_driver()
SetupDriver ==
    /\ pc = "setup_driver"
    /\ setupCalls' = setupCalls + 1
    /\ \/ \* webdriver.Chrome raises: self.driver stays None
          /\ SetupFails
          /\ UNCHANGED << driver, sessionLive >>
       \/ \* the session starts, set_page_load_timeout raises
          /\ driver' = Chrome
          /\ sessionLive' = TRUE
          /\ SetupFails
       \/ /\ driver' = Chrome
          /\ sessionLive' = TRUE
          /\ exc' = exc
          /\ pc' = "loop"
    /\ UNCHANGED << csv, urls, idx, calls, results, successful, failed, retval,
                    manifest >>
    /\ UNCHANGED workflowVars
    /\ UNCHANGED mainVars
    /\ UNCHANGED sanVars

\* for url in tqdm(urls): result = self.process_url(url, screenshots_dir)
Loop ==
    /\ pc = "loop"
    /\ IF LoopDone(idx, urls)
       THEN /\ pc' = "to_csv"
            /\ UNCHANGED << calls, result, raisedAt, raisedExc, elem, page, evaluated, trace >>
       ELSE /\ pc' = "navigate"
            /\ calls' = calls + 1
            /\ result' = NewResult(urls[idx])
            /\ raisedAt' = NoStep
            /\ raisedExc' = NoStep
            /\ elem' = NoElement
            /\ page' = <<>>
            /\ evaluated' = 0
            /\ trace' = <<>>
    /\ UNCHANGED << csv, urls, idx, driver, sessionLive, setupCalls, results,
                    successful, failed, retval, exc, manifest, files >>
    /\ UNCHANGED mainVars
    /\ UNCHANGED sanVars

(* ---------------------------------------------------------------------- *)
(* process_url                                                             *)
(* ---------------------------------------------------------------------- *)
\* exception e leaves statement step: the inner handler of the email form,
\* the outer handler of process_url, or the caller
RaiseIn(step, e) ==
    /\ raisedAt' = step
    /\ raisedExc' = e
    /\ IF step \in EmailSteps /\ InnerCatches(e)
       THEN /\ result' = [result EXCEPT !.error = MsgEmailForm(e)]
            /\ pc' = "append"
            /\ exc' = exc
       ELSE IF OuterCatches(e)
       THEN /\ result' = [result EXCEPT !.error = MsgUnexpected(e)]
            /\ pc' = "append"
            /\ exc' = exc
       ELSE /\ result' = result
            /\ pc' = "finally"
            /\ exc' = <<e, "process_url">>

\* a statement group that drives the session and ends with a debug screenshot;
\* the element the chain before it found is not used after it
SessionStep(step, next, stage) ==
    /\ pc = step
    /\ trace' = Append(trace, step)
    /\ page' = <<>>
    /\ \/ /\ pc' = next
          /\ files' = files \cup {DebugName(result.url, stage)}
          /\ UNCHANGED << result, raisedAt, raisedExc, exc >>
       \/ /\ \E e \in StepErrors : RaiseIn(step, e)
          /\ files' = files
    /\ elem' = NoElement
    /\ evaluated' = 0
    /\ UNCHANGED batchVars
    /\ UNCHANGED mainVars
    /\ UNCHANGED sanVars

\* one locator chain: the loop over its candidates and the not-found return
FindStep(step, chain, condition, msg, next) ==
    /\ pc = step
    /\ trace' = Append(trace, step)
    /\ \/ /\ page' \in Pages(Len(chain))
          /\ LET r == Resolve(condition, page')
             IN  /\ elem' = r.el
                 /\ evaluated' = r.evaluated
                 /\ IF r.raised # NoStep
                    THEN RaiseIn(step, r.raised)
                    ELSE IF NotFound(r.el)
                    THEN /\ result' = [result EXCEPT !.error = msg]
                         /\ pc' = "append"
                         /\ UNCHANGED << raisedAt, raisedExc, exc >>
                    ELSE /\ pc' = next
                         /\ UNCHANGED << result, raisedAt, raisedExc, exc >>
       \/ \* a wait or is_displayed() raises something the loop does not catch
          /\ \E e \in StepErrors : RaiseIn(step, e)
          /\ UNCHANGED << page, elem, evaluated >>
    /\ files' = files
    /\ UNCHANGED batchVars
    /\ UNCHANGED mainVars
    /\ UNCHANGED sanVars

\* self.driver.get(self.base_url); wait for body; debug screenshot "initial"
Navigate == SessionStep("navigate", "find_url_input", "_initial")

FindUrlInput ==
    FindStep("find_url_input", selectors, UrlInputCondition, MsgNoUrlInput, "fill_url")

\* the URL is entered, and the debug screenshot is written under the name
\* of the stage before
FillUrl_initialStage == SessionStep("fill_url", "find_submit", "_initial")

\* url_input.clear(); url_input.send_keys(url); debug screenshot "url_entered"
FillUrl == SessionStep("fill_url", "find_submit", "_url_entered")

FindSubmit ==
    FindStep("find_submit", button_selectors, SubmitCondition, MsgNoSubmit, "click_submit")

\* submit_button.click(); debug screenshot "submitted"
\* the first submit click followed by the final submit chain
ClickSubmit_toFinal == SessionStep("click_submit", "find_final_submit", "_submitted")

ClickSubmit == SessionStep("click_submit", "find_email", "_submitted")

FindEmail ==
    FindStep("find_email", email_selectors, EmailInputCondition, MsgNoEmailInput,
             "fill_email")

\* email_input.clear(); email_input.send_keys(self.email); debug screenshot
FillEmail == SessionStep("fill_email", "find_final_submit", "_email_entered")

FindFinalSubmit ==
    FindStep("find_final_submit", final_submit_selectors, FinalSubmitCondition,
             MsgNoFinalSubmit, "click_final_submit")

\* final_submit.click(); debug screenshot "final_submitted"
ClickFinalSubmit == SessionStep("click_final_submit", "wait_audit", "_final_submitted")

\* time.sleep(5); WebDriverWait(self.driver, 30).until(presence of body)
WaitAudit ==
    /\ pc = "wait_audit"
    /\ trace' = Append(trace, "wait_audit")
    /\ \/ /\ pc' = "popup"
          /\ UNCHANGED << result, raisedAt, raisedExc, exc >>
       \/ \E e \in StepErrors : RaiseIn("wait_audit", e)
    /\ UNCHANGED << elem, page, evaluated, files >>
    /\ UNCHANGED batchVars
    /\ UNCHANGED mainVars
    /\ UNCHANGED sanVars

\* except (TimeoutException, NoSuchElementException) around the popup
PopupCatches(e) == e \in {"TimeoutException", "NoSuchElementException"}

\* popup_close = WebDriverWait(...).until(element_to_be_clickable(...)); popup_close.click()
Popup ==
    /\ pc = "popup"
    /\ trace' = Append(trace, "popup")
    /\ \/ \* the popup is there and the click returns
          /\ pc' = "screenshot"
          /\ UNCHANGED << result, raisedAt, raisedExc, exc >>
       \/ \* the wait or the click raises
          \E e \in StepErrors \cup {"TimeoutException", "NoSuchElementException"} :
             IF PopupCatches(e)
             THEN /\ pc' = "screenshot"
                  /\ UNCHANGED << result, raisedAt, raisedExc, exc >>
             ELSE RaiseIn("popup", e)
    /\ UNCHANGED << elem, page, evaluated, files >>
    /\ UNCHANGED batchVars
    /\ UNCHANGED mainVars
    /\ UNCHANGED sanVars

\* execute_script, set_window_size, save_screenshot; status and path are set
Screenshot ==
    /\ pc = "screenshot"
    /\ trace' = Append(trace, "screenshot")
    /\ \/ /\ files' = files \cup {FinalName(result.url)}
          /\ result' = [result EXCEPT !.status = "success",
                                      !.screenshot_path = FinalName(result.url)]
          /\ pc' = "append"
          /\ UNCHANGED << raisedAt, raisedExc, exc >>
       \/ /\ \E e \in StepErrors : RaiseIn("screenshot", e)
          /\ files' = files
    /\ UNCHANGED << elem, page, evaluated >>
    /\ UNCHANGED batchVars
    /\ UNCHANGED mainVars
    /\ UNCHANGED sanVars

(* ---------------------------------------------------------------------- *)
(* process_csv, from the loop body on                                      *)
(* ---------------------------------------------------------------------- *)
\* results.append(result); classify by status
AppendResult ==
    /\ pc = "append"
    /\ results' = ResultsAppend(results, result)
    /\ LET c == Classify(result, urls[idx], successful, failed)
       IN  successful' = c[1] /\ failed' = c[2]
    /\ pc' = "sleep"
    /\ page' = <<>>
    /\ elem' = NoElement
    /\ evaluated' = 0
    /\ UNCHANGED << csv, urls, idx, driver, sessionLive, setupCalls, calls, retval,
                    exc, manifest, result, raisedAt, raisedExc, trace,
                    files >>
    /\ UNCHANGED mainVars
    /\ UNCHANGED sanVars

\* time.sleep(2), then the next iteration; Ctrl-C may arrive during the sleep
\* as it may during any statement of process_url (StepErrors)
\* a sleep that never returns
Sleep_forever ==
    /\ pc = "sleep"
    /\ UNCHANGED vars

Sleep ==
    /\ pc = "sleep"
    /\ \/ /\ idx' = idx + 1
          /\ pc' = "loop"
          /\ exc' = exc
       \/ /\ exc' = <<"KeyboardInterrupt", "sleep">>
          /\ pc' = "finally"
          /\ idx' = idx
    /\ UNCHANGED << csv, urls, driver, sessionLive, setupCalls, calls, results,
                    successful, failed, retval, manifest >>
    /\ UNCHANGED workflowVars
    /\ UNCHANGED mainVars
    /\ UNCHANGED sanVars

\* results_df.to_csv(results_csv_path, index=False); return successful, failed.
\* A write that raises is taken to leave no results.csv behind.
ToCsv ==
    /\ pc = "to_csv"
    /\ \/ /\ manifest' = Append(manifest, results)
          /\ retval' = <<successful, failed>>
          /\ exc' = exc
       \/ \* the file cannot be written
          /\ exc' = <<"OSError", "to_csv">>
          /\ UNCHANGED << manifest, retval >>
    /\ pc' = "finally"
    /\ UNCHANGED << csv, urls, idx, driver, sessionLive, setupCalls, calls, results,
                    successful, failed >>
    /\ UNCHANGED workflowVars
    /\ UNCHANGED mainVars
    /\ UNCHANGED sanVars

\* finally: self.cleanup()
Finally ==
    /\ pc = "finally"
    /\ LET c == cleanup(driver, sessionLive)
       IN  driver' = c[1] /\ sessionLive' = c[2]
    /\ pc' = "done"
    /\ UNCHANGED << csv, urls, idx, setupCalls, calls, results, successful, failed,
                    retval, exc, manifest >>
    /\ UNCHANGED workflowVars
    /\ UNCHANGED mainVars
    /\ UNCHANGED sanVars

(* ---------------------------------------------------------------------- *)
(* create_zip                                                              *)
(* ---------------------------------------------------------------------- *)
\* the files under the run directory, as (directory, name) below it
RunFiles ==
    {<<"screenshots", f>> : f \in files}
        \cup (IF manifest # <<>> THEN {<<".", <<"results.csv">> >>} ELSE {})

\* --output: absent, a path outside the run directory, a path in it, a path
\* in its screenshots directory
ZipOutputs ==
    {None, <<"elsewhere", <<"out.zip">> >>, <<".", <<"out.zip">> >>,
     <<"screenshots", <<"out.zip">> >>}

\* zip_path = output_path.parent / f"seo_audit_results_{timestamp}.zip" when
\* no path is given
ZipPathOf(zip_path) ==
    IF zip_path = None
    THEN <<"parent", <<"seo_audit_results_", "timestamp", ".zip">> >>
    ELSE zip_path

\* os.walk(output_path) after zipfile.ZipFile(zip_path, 'w') has created the
\* archive file: the files under the run directory, the archive among them
\* when it lies there
WalkedFiles(tree, zp) ==
    tree \cup (IF zp[1] \in {".", "screenshots"} THEN {zp} ELSE {})

\* arcname = os.path.relpath(file_path, output_path.parent)
ArcName(f) == <<"run", f[1], f[2]>>

\* the entries zipf.write adds
ZipEntries(tree, zp) == {ArcName(f) : f \in WalkedFiles(tree, zp)}

(* ---------------------------------------------------------------------- *)
(* main                                                                    *)
(* ---------------------------------------------------------------------- *)
\* a top level without the KeyboardInterrupt handler
MainCatchesInterrupt_none(e) == FALSE

\* except KeyboardInterrupt
MainCatchesInterrupt(e) == e = "KeyboardInterrupt"

\* except Exception as e
MainCatchesException(e) == e # "KeyboardInterrupt"

\* exception e, raised in origin, reaches the handlers of main
MainHandle(e, origin) ==
    /\ pc' = "exit"
    /\ IF MainCatchesInterrupt(e)
       THEN /\ printed' = Append(printed, <<"Process interrupted. Cleaning up...">>)
            /\ caught' = <<e, origin>>
            /\ uncaught' = uncaught
       ELSE IF MainCatchesException(e)
       THEN /\ printed' = Append(printed, <<"An error occurred: ", e>>)
            /\ caught' = <<e, origin>>
            /\ uncaught' = uncaught
       ELSE /\ uncaught' = <<e, origin>>
            /\ UNCHANGED << printed, caught >>

\* successful, failed = automation.process_csv(args.input, output_dir)
MainResume ==
    /\ pc = "done"
    /\ IF exc = None
       THEN /\ pc' = "create_zip"
            /\ UNCHANGED << printed, caught, uncaught >>
       ELSE MainHandle(exc[1], exc[2])
    /\ UNCHANGED << zipPath, archive, exc >>
    /\ UNCHANGED batchVars
    /\ UNCHANGED workflowVars
    /\ UNCHANGED sanVars

\* zip_path = automation.create_zip(output_dir, args.output)
CreateZip ==
    /\ pc = "create_zip"
    /\ \/ \E out \in ZipOutputs :
             /\ zipPath' = ZipPathOf(out)
             /\ archive' = ZipEntries(RunFiles, ZipPathOf(out))
             /\ pc' = "print_summary"
             /\ UNCHANGED << printed, caught, uncaught >>
       \/ \* the archive cannot be written, or Ctrl-C arrives
          /\ \E e \in {"OSError", "KeyboardInterrupt"} : MainHandle(e, "create_zip")
          /\ UNCHANGED << zipPath, archive >>
    /\ exc' = exc
    /\ UNCHANGED batchVars
    /\ UNCHANGED workflowVars
    /\ UNCHANGED sanVars

\* the summary: total, successful, failed, archive path
Summary(succ, fail, zp) == <<"summary", Len(succ) + Len(fail), Len(succ), Len(fail), zp>>

\* print("SEO Audit Automation Complete!") ... print(f"Results saved to: {zip_path}")
PrintSummary ==
    /\ pc = "print_summary"
    /\ printed' = Append(printed, Summary(retval[1], retval[2], zipPath))
    /\ pc' = "exit"
    /\ UNCHANGED << zipPath, archive, caught, uncaught, exc >>
    /\ UNCHANGED batchVars
    /\ UNCHANGED workflowVars
    /\ UNCHANGED sanVars

Next ==
    \/ ReadCsv
    \/ SetupDriver
    \/ Loop
    \/ Navigate
    \/ FindUrlInput
    \/ FillUrl
    \/ FindSubmit
    \/ ClickSubmit
    \/ FindEmail
    \/ FillEmail
    \/ FindFinalSubmit
    \/ ClickFinalSubmit
    \/ WaitAudit
    \/ Popup
    \/ Screenshot
    \/ AppendResult
    \/ Sleep
    \/ ToCsv
    \/ Finally
    \/ MainResume
    \/ CreateZip
    \/ PrintSummary

Spec == Init /\ [][Next]_vars

\* the interpreter runs the next statement whenever there is one: every wait
\* in the code has a timeout and every sleep has a fixed length
LiveSpec == Init /\ [][Next]_vars /\ WF_vars(Next)

(* ---------------------------------------------------------------------- *)
(* sanitize_filename called directly on the object                         *)
(* ---------------------------------------------------------------------- *)
\* the longest argument length tried
MaxUrlLen == 104

\* u repeated up to the length len
Repeat(u, len) == [i \in 1..len |-> u[((i - 1) % Len(u)) + 1]]

SanLens == {1, MaxFilenameLen, MaxFilenameLen + 1, MaxUrlLen}

\* arguments: with and without a scheme, a host or a path of the lengths
\* around the cut, with upper case, "/" and "."
SanInputs ==
    { pre \o Repeat(u, n) :
        pre \in {<<>>, <<"h", ":", "/", "/">>},
        u \in {<<"a">>, <<"A", "/", ".">>},
        n \in SanLens }

\* a caller starts the browser session of the object: self.driver is set
SanSetupDriver ==
    /\ pc = "read_csv"
    /\ driver = None
    /\ driver' = Chrome
    /\ sessionLive' = TRUE
    /\ setupCalls' = setupCalls + 1
    /\ UNCHANGED << csv, urls, pc, idx, calls, results, successful, failed, retval,
                    manifest, exc >>
    /\ UNCHANGED workflowVars
    /\ UNCHANGED mainVars
    /\ UNCHANGED sanVars

\* a caller calls automation.sanitize_filename(u)
Sanitize ==
    /\ pc = "read_csv"
    /\ \E u \in SanInputs :
          /\ sanUrl' = u
          /\ sanOut' = sanitize_filename(u)
    /\ sanPrevUrl' = sanUrl
    /\ sanPrevOut' = sanOut
    /\ sanCalls' = IF sanCalls < 2 THEN sanCalls + 1 ELSE sanCalls
    /\ UNCHANGED batchVars
    /\ UNCHANGED workflowVars
    /\ UNCHANGED mainVars
    /\ UNCHANGED << pc, exc >>

SanNext ==
    \/ SanSetupDriver
    \/ Sanitize

SanSpec == Init /\ [][SanNext]_vars

(* ---------------------------------------------------------------------- *)
(* Properties                                                              *)
(* ---------------------------------------------------------------------- *)
\* the statements of process_url
WorkflowPcs ==
    {"navigate", "find_url_input", "fill_url", "find_submit", "click_submit",
     "find_email", "fill_email", "find_final_submit", "click_final_submit",
     "wait_audit", "popup", "screenshot"}

\* the statements of process_csv up to the end of its loop
LoopPcs == {"read_csv", "setup_driver", "loop", "append", "sleep"} \cup WorkflowPcs

\* process_csv has returned normally
Returned == pc = "done" /\ exc = None

FindSteps == {"find_url_input", "find_submit", "find_email", "find_final_submit"}

\* the not-found message of each mandatory chain
NotFoundMsg(step) ==
    CASE step = "find_url_input"    -> MsgNoUrlInput
      [] step = "find_submit"       -> MsgNoSubmit
      [] step = "find_email"        -> MsgNoEmailInput
      [] step = "find_final_submit" -> MsgNoFinalSubmit

\* process_url has just returned from the not-found branch of a chain
NotFoundReturn ==
    /\ pc = "append"
    /\ raisedAt = NoStep
    /\ trace # <<>>
    /\ trace[Len(trace)] \in FindSteps
    /\ NotFound(elem)

\* the resolver has just run over the page
Resolved == page # <<>>

VisibleAt(pg) == {i \in 1..Len(pg) : pg[i] = "visible"}

\* the lowest element of a non-empty set of numbers
Lowest(S) == CHOOSE i \in S : \A j \in S : i <= j

\* C1: a non-empty input list of length N that process_csv processes to
\* normal completion yields exactly N results, the i-th one for the i-th
\* item, and len(successful) + len(failed) = N.
C1_OneResultPerItem ==
    (Returned /\ Len(urls) > 0) =>
        /\ Len(results) = Len(urls)
        /\ \A i \in 1..Len(urls) : results[i].url = urls[i]
        /\ Len(successful) + Len(failed) = Len(urls)
        /\ retval = <<successful, failed>>

C1_Witness ==
    /\ Returned
    /\ Len(urls) = 2
    /\ Len(results) = 2
    /\ Len(successful) = 1
    /\ Len(failed) = 1

\* C2: every result process_url returns, on every return path, has a
\* screenshot path when its status is success and an error message when its
\* status is failed; so has every result kept in the list.
C2_ResultWellFormed ==
    LET ok(r) == /\ r.status \in {"success", "failed"}
                 /\ r.status = "success" => r.screenshot_path # None
                 /\ r.status = "failed" => r.error # None
    IN  /\ pc = "append" => ok(result)
        /\ \A i \in 1..Len(results) : ok(results[i])

C2_Witness ==
    /\ Len(results) = 2
    /\ results[1].status = "failed"
    /\ results[1].error = MsgNoEmailInput
    /\ results[2].status = "success"
    /\ results[2].screenshot_path = FinalName(urls[2])

\* C3: when a mandatory chain ends with no element, process_url returns a
\* failed result whose message is the one of that chain, which is the
\* message of no other chain and not an unexpected-error message.
C3_NotFoundMessage ==
    NotFoundReturn =>
        LET step == trace[Len(trace)]
        IN  /\ result.status = "failed"
            /\ result.error = NotFoundMsg(step)
            /\ \A other \in FindSteps \ {step} : result.error # NotFoundMsg(other)
            /\ \A e \in StepErrors \cup {"TimeoutException", "NoSuchElementException"} :
                  result.error # MsgUnexpected(e) /\ result.error # MsgEmailForm(e)

C3_Witness ==
    /\ NotFoundReturn
    /\ trace[Len(trace)] = "find_submit"
    /\ result.error = <<"Could not find submit button">>

\* an exception of class Exception left a statement of process_url
RaisedException == raisedAt # NoStep /\ raisedExc # "KeyboardInterrupt"

\* C4 as stated: an exception raised at any statement of process_url is
\* caught and turned into a failed result with "Unexpected error: <detail>".
C4_AlwaysUnexpectedError ==
    RaisedException =>
        /\ result.status = "failed"
        /\ result.error = MsgUnexpected(raisedExc)

\* C4 amended: an exception raised at any statement of process_url is caught
\* and turned into a failed result; its message is "Failed to handle email
\* form: <detail>" when the statement is inside the email-form block and
\* "Unexpected error: <detail>" otherwise.
C4_ExceptionToFailedResult ==
    RaisedException =>
        /\ exc = None \/ exc[2] # "process_url"
        /\ result.status = "failed"
        /\ result.screenshot_path = None
        /\ result.error = IF raisedAt \in EmailSteps
                          THEN MsgEmailForm(raisedExc)
                          ELSE MsgUnexpected(raisedExc)

C4_Witness ==
    /\ pc = "append"
    /\ raisedAt = "click_final_submit"
    /\ raisedExc = "WebDriverException"
    /\ result.error = <<"Failed to handle email form: ", "WebDriverException">>

\* C5: no failure of an item leaves process_url as an exception (only
\* Ctrl-C does), and a batch that returns has a result for every item that
\* follows a failed one.
C5_ItemFailuresIsolated ==
    /\ (exc # None /\ exc[2] = "process_url") => exc[1] = "KeyboardInterrupt"
    /\ (pc \notin LoopPcs \cup {"to_csv"} /\ raisedAt # NoStep /\ exc = None) =>
          Len(results) = Len(urls)
    /\ Returned =>
          \A i \in 1..Len(results) :
             results[i].status = "failed" =>
                \A j \in (i + 1)..Len(urls) :
                   j <= Len(results) /\ results[j].url = urls[j]

C5_Witness ==
    /\ Returned
    /\ Len(results) = 2
    /\ results[1].status = "failed"
    /\ results[1].error = MsgUnexpected("WebDriverException")
    /\ results[2].status = "success"

\* C6: when some candidate of the chain matches a visible element, the
\* element the resolver yields is the one of the lowest such candidate, and
\* no candidate after it was tried; so for [A, B, C] with A absent and B, C
\* visible it is B's.
C6_FirstMatchWins ==
    (Resolved /\ VisibleAt(page) # {}) =>
        /\ elem.cand = Lowest(VisibleAt(page))
        /\ elem.displayed
        /\ evaluated = elem.cand

C6_Witness ==
    /\ Resolved
    /\ page[1] = "absent"
    /\ page[2] = "visible"
    /\ page[3] = "visible"
    /\ elem.cand = 2
    /\ evaluated = 2

\* C7: the resolver yields an element only if it was present and visible for
\* its candidate; when no candidate has a visible element the outcome is
\* not-found and process_url returns that chain's not-found failure.
C7_OnlyVisibleElements ==
    Resolved =>
        IF VisibleAt(page) # {}
        THEN ~NotFound(elem) /\ page[elem.cand] = "visible"
        ELSE /\ NotFound(elem)
             /\ pc = "append"
             /\ result.status = "failed"
             /\ result.error = NotFoundMsg(trace[Len(trace)])

\* C8: for an empty input list process_csv returns ([], []) and neither
\* setup_driver nor process_url is ever called.
C8_EmptyListNoSession ==
    csv = <<>> =>
        /\ setupCalls = 0
        /\ calls = 0
        /\ trace = <<>>
        /\ driver = None
        /\ ~sessionLive
        /\ Returned => retval = << <<>>, <<>> >>

C8_Witness ==
    /\ Returned
    /\ csv = <<>>
    /\ urls = <<>>
    /\ retval = << <<>>, <<>> >>

\* C9: when process_csv has ended, by a return or by an exception, no
\* session is left running and self.driver is None.
C9_SessionReleased ==
    pc \notin LoopPcs \cup {"to_csv", "finally"} => (~sessionLive /\ driver = None)

C9_Witness ==
    /\ pc = "done"
    /\ setupCalls = 1
    /\ calls = 2
    /\ exc = <<"KeyboardInterrupt", "process_url">>
    /\ ~sessionLive

\* C10: results.csv is written at most once, only when every item has its
\* result in the list, and not at all in a run that an interrupt or an
\* error stops before the loop is over.
C10_ManifestSealedOnce ==
    /\ Len(manifest) <= 1
    /\ Len(manifest) = 1 =>
          /\ Len(results) = Len(urls)
          /\ manifest[1] = results
          /\ pc \notin LoopPcs \cup {"to_csv"}
          /\ exc = None
    /\ (exc # None /\ exc[2] # "to_csv") => manifest = <<>>

C10_Witness ==
    /\ pc = "done"
    /\ Len(manifest) = 1
    /\ Len(manifest[1]) = 2
    /\ Len(urls) = 2

\* process_url was called for an item whose result is not in the list: the
\* call is running, has just returned, or was left by an exception
ItemOpen ==
    \/ pc \in WorkflowPcs \cup {"append"}
    \/ exc # None /\ exc[2] = "process_url"

\* C11: at every point of a run, also when an interrupt or an error has
\* stopped it, the results list holds exactly one result for each item whose
\* workflow has returned, in input order, and nothing for any other item.
C11_ManifestMatchesReached ==
    /\ \A i \in 1..Len(results) : i <= Len(urls) /\ results[i].url = urls[i]
    /\ Len(results) = IF ItemOpen THEN calls - 1 ELSE calls
    /\ Len(successful) + Len(failed) = Len(results)

C11_Witness ==
    /\ pc = "done"
    /\ exc = <<"KeyboardInterrupt", "process_url">>
    /\ calls = 2
    /\ Len(results) = 1
    /\ results[1].url = urls[1]
    /\ manifest = <<>>

\* C12: when setup_driver raises, process_url is never called, no result is
\* made, nothing is classified, results.csv is not written and the exception
\* reaches the caller of process_csv; the loop never runs without a session.
C12_SetupFailureAbortsBatch ==
    /\ (exc # None /\ exc[2] = "setup_driver") =>
          /\ pc \notin LoopPcs \cup {"to_csv"}
          /\ calls = 0
          /\ trace = <<>>
          /\ results = <<>>
          /\ successful = <<>>
          /\ failed = <<>>
          /\ manifest = <<>>
          /\ retval = None
          /\ pc = "exit" => (caught = exc /\ printed = << <<"An error occurred: ", exc[1]>> >>)
    /\ pc \in (LoopPcs \cup {"to_csv"}) \ {"read_csv", "setup_driver"} =>
          (driver # None /\ sessionLive)

C12_Witness ==
    /\ pc = "exit"
    /\ setupCalls = 1
    /\ exc = <<"WebDriverException", "setup_driver">>
    /\ caught = exc
    /\ calls = 0
    /\ manifest = <<>>

\* the urls of the results of rs that have status st, in the order of rs
RECURSIVE UrlsWithStatus(_, _)
UrlsWithStatus(rs, st) ==
    IF rs = <<>> THEN <<>>
    ELSE LET front == UrlsWithStatus(SubSeq(rs, 1, Len(rs) - 1), st)
             last == rs[Len(rs)]
         IN  IF last.status = st THEN Append(front, last.url) ELSE front

\* C13: successful is the sequence of the items whose result has status
\* success and failed the sequence of those whose result has status failed,
\* both in input order; they are what process_csv returns.  For two items of
\* which the second never shows the URL input, the lists are [first] and
\* [second] and results.csv has two rows.
C13_ClassifiedByStatus ==
    /\ successful = UrlsWithStatus(results, "success")
    /\ failed = UrlsWithStatus(results, "failed")
    /\ Returned /\ urls # <<>> => retval = <<successful, failed>>
    /\ ( /\ Returned
         /\ Len(urls) = 2
         /\ results[1].status = "success"
         /\ results[2].error = MsgNoUrlInput ) =>
          /\ retval = << <<urls[1]>>, <<urls[2]>> >>
          /\ Len(manifest) = 1
          /\ Len(manifest[1]) = 2

C13_Witness ==
    /\ Returned
    /\ urls = <<UrlPlain, UrlScheme>>
    /\ results[1].status = "success"
    /\ results[2].error = MsgNoUrlInput
    /\ successful = <<UrlPlain>>
    /\ failed = <<UrlScheme>>
    /\ Len(manifest[1]) = 2

\* C14: after create_zip, whatever the archive path, every file that was
\* under the run directory when it was called is in the archive under its
\* path relative to the parent of the run directory, and the archive has as
\* many entries as there were files.
C14_ArchiveHoldsRunFiles ==
    zipPath # None =>
        /\ \A f \in RunFiles : ArcName(f) \in archive
        /\ Cardinality(archive) = Cardinality(RunFiles)

\* main has printed the summary with the counts
SummaryPrinted == \E i \in 1..Len(printed) : printed[i][1] = "summary"

\* C15 as stated: main prints the final summary with the counts both when it
\* completes normally and when Ctrl-C interrupts it, and Ctrl-C does not
\* leave main.
C15_SummaryAlwaysPrinted ==
    (pc = "exit" /\ (caught = None \/ caught[1] = "KeyboardInterrupt")) =>
        (uncaught = None /\ SummaryPrinted)

\* C15 amended: main prints the summary with the counts of total, successful
\* and failed items when it completes normally; when Ctrl-C interrupts it,
\* it prints "Process interrupted. Cleaning up..." and no counts; Ctrl-C is
\* caught in main and does not leave it.
C15_SummaryOrInterruptNotice ==
    pc = "exit" =>
        /\ uncaught = None
        /\ Len(printed) = 1
        /\ caught = None =>
              /\ exc = None
              /\ printed[1] = Summary(successful, failed, zipPath)
              /\ printed[1][2] = Len(results)
        /\ (caught # None /\ caught[1] = "KeyboardInterrupt") =>
              (printed[1] = <<"Process interrupted. Cleaning up...">> /\ ~SummaryPrinted)

C15_Witness ==
    /\ pc = "exit"
    /\ caught = <<"KeyboardInterrupt", "process_url">>
    /\ Len(results) = 1
    /\ printed = << <<"Process interrupted. Cleaning up...">> >>
    /\ uncaught = None

WorkflowOrder ==
    <<"navigate", "find_url_input", "fill_url", "find_submit", "click_submit",
      "find_email", "fill_email", "find_final_submit", "click_final_submit",
      "wait_audit", "popup", "screenshot">>

\* the position of a statement in the trace of this item, 0 when it has not run
TracePos(step) ==
    IF \E i \in 1..Len(trace) : trace[i] = step
    THEN CHOOSE i \in 1..Len(trace) : trace[i] = step
    ELSE 0

\* C17: the statements process_url has run for an item are always a prefix
\* of the fixed order: none runs out of order or twice, the email chain never
\* runs before the first submit click, and the wait runs after the final
\* submit click and before the final screenshot.
C17_StepsInFixedOrder ==
    /\ Len(trace) <= Len(WorkflowOrder)
    /\ trace = SubSeq(WorkflowOrder, 1, Len(trace))
    /\ pc \in WorkflowPcs => pc = WorkflowOrder[Len(trace) + 1]
    /\ TracePos("find_email") > 0 =>
          (TracePos("click_submit") > 0 /\ TracePos("click_submit") < TracePos("find_email"))
    /\ TracePos("wait_audit") > 0 =>
          (TracePos("click_final_submit") > 0
             /\ TracePos("click_final_submit") < TracePos("wait_audit"))
    /\ TracePos("screenshot") > 0 => 
          (TracePos("wait_audit") > 0 /\ TracePos("wait_audit") < TracePos("screenshot"))

C17_Witness ==
    /\ pc = "append"
    /\ trace = WorkflowOrder
    /\ result.status = "success"
    /\ idx = 2

\* the statements that use the element the chain before them returned
UsesElement == {"fill_url", "click_submit", "fill_email", "click_final_submit"}

\* C18: when a mandatory chain ends without an element, process_url returns
\* at once with a failed result and no screenshot path; a fill or a click is
\* only reached with an element; and a result has status success only when
\* all four chains and both submit clicks ran and nothing was raised.
C18_NotFoundStopsItem ==
    /\ (Resolved /\ elem.cand = 0 /\ raisedAt = NoStep) =>
          /\ pc = "append"
          /\ trace[Len(trace)] \in FindSteps
          /\ result.status = "failed"
          /\ result.screenshot_path = None
    /\ pc \in UsesElement => elem.cand # 0
    /\ (pc = "append" /\ result.status = "success") =>
          /\ trace = WorkflowOrder
          /\ raisedAt = NoStep
          /\ FinalName(result.url) \in files
    /\ (pc = "append" /\ result.status = "failed" /\ raisedAt = NoStep) =>
          (trace[Len(trace)] \in FindSteps /\ elem.cand = 0)

C18_Witness ==
    /\ pc = "append"
    /\ raisedAt = NoStep
    /\ Resolved
    /\ elem.cand = 0
    /\ Len(trace) = 8
    /\ trace[8] = "find_final_submit"
    /\ result.status = "failed"
    /\ result.error = MsgNoFinalSubmit

\* C19 as stated: once the wait after the final submit has returned, no
\* failure of the popup statements, the close click included, keeps
\* process_url from the final screenshot.
C19_PopupNeverBlocks ==
    (trace # <<>> /\ trace[Len(trace)] = "popup" /\ raisedExc # "KeyboardInterrupt") =>
        (pc = "screenshot" /\ raisedAt = NoStep)

\* C20: for every input list process_csv eventually terminates, by returning
\* or by raising, given that every statement that waits returns or times out.
C20_BatchTerminates == <>(pc = "done")

C20_Witness ==
    /\ pc = "done"
    /\ Len(urls) = MaxItems
    /\ calls = MaxItems
    /\ idx = MaxItems + 1
    /\ manifest # <<>>

\* the stage name of the debug screenshot a statement group ends with;
\* NoStep for the groups that take none
DebugStage(step) ==
    CASE step = "navigate"           -> "_initial"
      [] step = "fill_url"           -> "_url_entered"
      [] step = "click_submit"       -> "_submitted"
      [] step = "fill_email"         -> "_email_entered"
      [] step = "click_final_submit" -> "_final_submitted"
      [] OTHER                       -> NoStep

\* process_url is running for an item or has just returned its result
InItem == pc \in WorkflowPcs \cup {"append"}

\* the statement groups of this item that ran to their end
CompletedSteps == {trace[i] : i \in 1..Len(trace)} \ {raisedAt}

\* the statement groups of this item that ran to their end and take a debug
\* screenshot
CapturedSteps == {s \in CompletedSteps : DebugStage(s) # NoStep}

\* C21 as stated: an item whose result is failed has, for every statement
\* group that ran for it, the failing one included, a debug screenshot of
\* that group in the screenshots directory.
C21_EveryStepHasDiagnostic ==
    (pc = "append" /\ result.status = "failed") =>
        \A i \in 1..Len(trace) :
           /\ DebugStage(trace[i]) # NoStep
           /\ <<"debug_">> \o SanitizedName[result.url] \o <<DebugStage(trace[i]), ".png">>
                 \in files

\* C21 amended: the five groups that drive the page (navigate, fill the URL,
\* click submit, fill the email, click the final submit) each end with a
\* debug screenshot named for the group, which stays in the directory
\* whatever happens later; the chains, the wait, the popup and a group that
\* raises write none.  So a failed item has a debug screenshot for each of
\* these five groups that ran to its end before the failure, and none for
\* the failing group.
C21_CompletedStagesHaveDiagnostic ==
    /\ InItem =>
          \A s \in CapturedSteps :
             <<"debug_">> \o SanitizedName[result.url] \o <<DebugStage(s), ".png">> \in files
    /\ (InItem /\ calls = 1) =>
          files = { <<"debug_">> \o SanitizedName[result.url] \o <<DebugStage(s), ".png">> :
                       s \in CapturedSteps }
                  \cup (IF result.status = "success"
                        THEN {SanitizedName[result.url] \o <<".png">>}
                        ELSE {})

C21_Witness ==
    /\ pc = "append"
    /\ calls = 1
    /\ result.status = "failed"
    /\ result.error = MsgNoEmailInput
    /\ Cardinality(files) = 3
    /\ DebugName(result.url, "_submitted") \in files

\* the positions of the results with status success
SuccessPositions == {i \in 1..Len(results) : results[i].status = "success"}

\* the final screenshots in the screenshots directory that a result with
\* status success names
SuccessFiles == {f \in files : \E i \in SuccessPositions : results[i].screenshot_path = f}

\* C22: two items at different positions that both end with status success
\* have different screenshot paths, so when results.csv is written the
\* directory holds as many final screenshots as there are success results.
C22_SuccessArtifactsDistinct ==
    /\ \A i, j \in SuccessPositions :
          i # j => results[i].screenshot_path # results[j].screenshot_path
    /\ manifest # <<>> => Cardinality(SuccessFiles) = Len(successful)

====
